---- MODULE Spec2Model ----
(***************************************************************************)
(* Model of pkg/client/legacylisters/listers_core.go: the typed listers    *)
(* over a cache.Indexer and the two label-selector relationship resolvers  *)
(* GetPodServices (service -> pod) and GetPodControllers (rc -> pod).      *)
(*                                                                         *)
(* The indexer is the only state of the program.  It is written by the     *)
(* synchronisation component (Add/Update/Delete) and read by the listers.  *)
(* Every lister call is one atomic step that records its outcome in        *)
(* `result`: the returned slice, the returned error, whether the call      *)
(* panicked on a failed type assertion, and the indexer calls it made.     *)
(***************************************************************************)
EXTENDS Naturals, Sequences, FiniteSets

VARIABLES indexer, result

vars == <<indexer, result>>

(***************************************************************************)
(* Bounds of the model.                                                    *)
(***************************************************************************)
MaxObjects == 2

Namespaces == {"ns1", "ns2"}
Names == {"a", "b"}
Kinds == {"Pod", "Service", "ReplicationController"}

(***************************************************************************)
(* map[string]string.  A Go map is either nil or a finite set of key/value *)
(* pairs with unique keys; len() of both the nil and the empty map is 0.   *)
(***************************************************************************)
NilMap == [isNil |-> TRUE, kv |-> {}]
MakeMap(pairs) == [isNil |-> FALSE, kv |-> pairs]
MapLen(m) == Cardinality(m.kv)
MapHas(m, k) == \E p \in m.kv : p[1] = k
MapGet(m, k) == (CHOOSE p \in m.kv : p[1] = k)[2]

LabelMaps ==
    { NilMap,
      MakeMap({}),
      MakeMap({<<"app", "x">>}),
      MakeMap({<<"app", "y">>}),
      MakeMap({<<"app", "x">>, <<"tier", "y">>}) }

\* The label maps and selectors of the objects held by the indexer.
StoredMaps == LabelMaps \ { MakeMap({<<"app", "y">>}) }

(***************************************************************************)
(* Objects held by the indexer.  `kind` is the dynamic Go type of the      *)
(* stored interface{} value, `labels` is ObjectMeta.Labels and `selector`  *)
(* is Spec.Selector (a Pod has no such field: NilMap).                     *)
(***************************************************************************)
Object(k, ns, n, l, s) ==
    [kind |-> k, namespace |-> ns, name |-> n, labels |-> l, selector |-> s]

Objects ==
    { Object("Pod", ns, n, l, NilMap) :
        ns \in Namespaces, n \in Names, l \in StoredMaps }
    \cup
    { Object("Service", ns, n, NilMap, s) :
        ns \in Namespaces, n \in Names, s \in StoredMaps }
    \cup
    { Object("ReplicationController", ns, n, NilMap, s) :
        ns \in Namespaces, n \in Names, s \in StoredMaps }

\* The pods handed to GetPodServices / GetPodControllers.
SubjectPods ==
    { Object("Pod", ns, "p", l, NilMap) : ns \in Namespaces, l \in LabelMaps }

Key(ns, n) == <<ns, n>>
KeyOf(o) == Key(o.namespace, o.name)

(***************************************************************************)
(* labels.Selector as built by labels.Set(m).AsSelectorPreValidated(): one *)
(* equality requirement per key/value pair of m.  A nil and an empty map   *)
(* both give the selector with zero requirements, which matches every      *)
(* label set (the reason for the guards at listers_core.go:129 and :199).  *)
(***************************************************************************)
AsSelectorPreValidated(m) == [reqs |-> m.kv]
Everything == [reqs |-> {}]
Empty(selector) == selector.reqs = {}
Matches(selector, ls) ==
    \A r \in selector.reqs : MapHas(ls, r[1]) /\ MapGet(ls, r[1]) = r[2]

\* The selectors handed to List.
ListSelectors == { AsSelectorPreValidated(m) : m \in LabelMaps }

(***************************************************************************)
(* cache.Indexer.  A snapshot is the indexer's content in the (arbitrary)  *)
(* order in which one call enumerates it.                                  *)
(***************************************************************************)
Range(seq) == { seq[i] : i \in DOMAIN seq }

\* The keys in one enumeration order of the indexer's map.
KeyOrder == <<Key("ns1", "a"), Key("ns2", "a"), Key("ns1", "b"), Key("ns2", "b")>>

Reverse(seq) == [i \in 1..Len(seq) |-> seq[Len(seq) + 1 - i]]

\* The objects of idx in the order `keys`.
RECURSIVE InOrder(_, _)
InOrder(idx, keys) ==
    IF keys = <<>> THEN <<>>
    ELSE LET here == { o \in idx : KeyOf(o) = Head(keys) }
         IN  (IF here = {} THEN <<>> ELSE <<CHOOSE o \in here : TRUE>>)
             \o InOrder(idx, Tail(keys))

\* Go does not fix the iteration order of a map: a call may see the objects
\* in either direction of KeyOrder.
Snapshots(idx) == { InOrder(idx, KeyOrder), InOrder(idx, Reverse(KeyOrder)) }

Indexer_List(snapshot) == snapshot

Indexer_Index(snapshot, namespace) ==
    SelectSeq(snapshot, LAMBDA o : o.namespace = namespace)

Indexer_GetByKey(idx, key) ==
    IF \E o \in idx : KeyOf(o) = key
    THEN [obj |-> <<CHOOSE o \in idx : KeyOf(o) = key>>, exists |-> TRUE]
    ELSE [obj |-> <<>>, exists |-> FALSE]

\* The items cache.ListAll hands to its append callback.
ListAll(snapshot, selector) ==
    SelectSeq(Indexer_List(snapshot), LAMBDA o : Matches(selector, o.labels))

\* The items cache.ListAllByNamespace hands to its append callback.
ListAllByNamespace(snapshot, namespace, selector) ==
    SelectSeq(Indexer_Index(snapshot, namespace),
              LAMBDA o : Matches(selector, o.labels))

(***************************************************************************)
(* Errors and call outcomes.  An outcome is what the caller observes: the  *)
(* returned slice (nil and empty are both <<>>; a returned pointer is a    *)
(* slice of length 1), the returned error, whether the call panicked       *)
(* instead of returning, and the indexer methods it invoked, in order.     *)
(***************************************************************************)
Err(t, n, ns, l) == [type |-> t, name |-> n, namespace |-> ns, labels |-> l]
NoErr == Err("nil", "", "", NilMap)
StoreErr == Err("StoreError", "", "", NilMap)
NotFound(resource, name) == Err("NotFound", name, resource, NilMap)
NoLabelsErr(pod) == Err("NoLabels", pod.name, "", NilMap)
NoMatchErr(pod) == Err("NoMatch", pod.name, pod.namespace, pod.labels)

Outcome(ret, err, calls) ==
    [ret |-> ret, err |-> err, panic |-> FALSE, calls |-> calls]
PanicOutcome(calls) ==
    [ret |-> <<>>, err |-> NoErr, panic |-> TRUE, calls |-> calls]

\* m.(*v1.T): the unchecked type assertion panics on a value of another type.
TypeAssert(m, kind) == m.kind = kind
TypeAssertAll(items, kind) == \A i \in DOMAIN items : TypeAssert(items[i], kind)

(***************************************************************************)
(* The typed listers.  storeErr is the error, if any, that the indexer     *)
(* (or the cache helper enumerating it) reports to this call.              *)
(***************************************************************************)
StoreToPodLister_List(snapshot, selector, storeErr) ==
    IF storeErr THEN Outcome(<<>>, StoreErr, <<"List">>)
    ELSE LET items == ListAll(snapshot, selector)
         IN  IF TypeAssertAll(items, "Pod")
             THEN Outcome(items, NoErr, <<"List">>)
             ELSE PanicOutcome(<<"List">>)

\* Mutant: the namespace is ignored and the whole store is listed.
storePodsNamespacer_ListAllNamespaces(snapshot, namespace, selector, storeErr) ==
    StoreToPodLister_List(snapshot, selector, storeErr)

storePodsNamespacer_List(snapshot, namespace, selector, storeErr) ==
    IF storeErr THEN Outcome(<<>>, StoreErr, <<"Index">>)
    ELSE LET items == ListAllByNamespace(snapshot, namespace, selector)
         IN  IF TypeAssertAll(items, "Pod")
             THEN Outcome(items, NoErr, <<"Index">>)
             ELSE PanicOutcome(<<"Index">>)

storePodsNamespacer_Get(idx, namespace, name, storeErr) ==
    LET got == Indexer_GetByKey(idx, Key(namespace, name))
    IN  IF storeErr THEN Outcome(<<>>, StoreErr, <<"GetByKey">>)
        ELSE IF ~got.exists THEN Outcome(<<>>, NotFound("pod", name), <<"GetByKey">>)
        ELSE IF TypeAssert(got.obj[1], "Pod")
             THEN Outcome(got.obj, NoErr, <<"GetByKey">>)
             ELSE PanicOutcome(<<"GetByKey">>)

storeServicesNamespacer_List(snapshot, namespace, selector, storeErr) ==
    IF storeErr THEN Outcome(<<>>, StoreErr, <<"Index">>)
    ELSE LET items == ListAllByNamespace(snapshot, namespace, selector)
         IN  IF TypeAssertAll(items, "Service")
             THEN Outcome(items, NoErr, <<"Index">>)
             ELSE PanicOutcome(<<"Index">>)

(***************************************************************************)
(* GetPodServices: the services of the pod's namespace that select it.     *)
(***************************************************************************)
\* Mutant: the nil guard is missing.
ServiceSelectsNoNilGuard(service, pod) ==
    Matches(AsSelectorPreValidated(service.selector), pod.labels)

\* Mutant: the guard of GetPodControllers (selector.Empty()) is used.
ServiceSelectsNonEmpty(service, pod) ==
    LET selector == AsSelectorPreValidated(service.selector)
    IN  ~Empty(selector) /\ Matches(selector, pod.labels)

\* The loop body: does `service` go into the result for `pod`?
ServiceSelects(service, pod) ==
    IF service.selector.isNil
    THEN FALSE
    ELSE Matches(AsSelectorPreValidated(service.selector), pod.labels)

\* Mutant: zero matches reported as an error, as GetPodControllers does.
ServicesErrIfNone(services, pod) ==
    IF Len(services) = 0 THEN NoMatchErr(pod) ELSE NoErr

\* The error returned after the loop.
ServicesErr(services, pod) == NoErr

GetPodServices(snapshot, pod, storeErr) ==
    LET all == storeServicesNamespacer_List(snapshot, pod.namespace,
                                            Everything, storeErr)
    IN  IF all.panic THEN all
        ELSE IF all.err # NoErr THEN Outcome(<<>>, all.err, all.calls)
        ELSE LET services ==
                    SelectSeq(all.ret, LAMBDA svc : ServiceSelects(svc, pod))
             IN  Outcome(services, ServicesErr(services, pod), all.calls)

(***************************************************************************)
(* GetPodControllers: the replication controllers managing the pod.        *)
(***************************************************************************)
\* Mutant: only a nil map is rejected (pod.Labels == nil).
PodLabelsNil(pod) == pod.labels.isNil

\* The precondition checked before the indexer is consulted.
PodHasNoLabels(pod) == MapLen(pod.labels) = 0

\* Mutant: the probe key names a fixed namespace.
ProbeNamespaceFixed(pod) == "ns1"

\* The namespace of the probe key handed to the namespace index.
ProbeNamespace(pod) == pod.namespace

\* Mutant: the selector.Empty() guard is missing.
ControllerSkippedNoEmptyGuard(rc, pod) ==
    ~Matches(AsSelectorPreValidated(rc.selector), pod.labels)

\* Mutant: the pod's labels must equal the selector, not merely satisfy it.
ControllerSkippedUnlessEqual(rc, pod) ==
    LET selector == AsSelectorPreValidated(rc.selector)
    IN  Empty(selector) \/ selector.reqs # pod.labels.kv

\* The loop body: is `rc` skipped (continue) for `pod`?
ControllerSkipped(rc, pod) ==
    LET selector == AsSelectorPreValidated(rc.selector)
    IN  Empty(selector) \/ ~Matches(selector, pod.labels)

\* Mutant: the empty result is returned without an error.
ControllersErrNever(controllers, pod) == NoErr

\* The error returned after the loop.
ControllersErr(controllers, pod) ==
    IF Len(controllers) = 0 THEN NoMatchErr(pod) ELSE NoErr

GetPodControllers(snapshot, pod, storeErr) ==
    IF PodHasNoLabels(pod) THEN Outcome(<<>>, NoLabelsErr(pod), <<>>)
    ELSE LET items == Indexer_Index(snapshot, ProbeNamespace(pod))
         IN  IF storeErr THEN Outcome(<<>>, StoreErr, <<"Index">>)
             ELSE IF ~TypeAssertAll(items, "ReplicationController")
             THEN PanicOutcome(<<"Index">>)
             ELSE LET controllers ==
                         SelectSeq(items, LAMBDA rc : ~ControllerSkipped(rc, pod))
                  IN  Outcome(controllers, ControllersErr(controllers, pod),
                              <<"Index">>)

(***************************************************************************)
(* The state machine.  Every call is atomic with respect to the indexer's  *)
(* lock, so writes to the indexer happen between calls: a call is made     *)
(* when no outcome is pending, and Return hands the outcome to the caller. *)
(* The listers keep nothing between calls.                                 *)
(***************************************************************************)
NoPod == Object("Pod", "", "", NilMap, NilMap)

Call(op, pod, ns, n, sel, storeErr, out) ==
    [op |-> op, pod |-> pod, namespace |-> ns, name |-> n, selector |-> sel,
     storeErr |-> storeErr,
     ret |-> out.ret, err |-> out.err, panic |-> out.panic, calls |-> out.calls]

Idle == Call("none", NoPod, "", "", Everything, FALSE, Outcome(<<>>, NoErr, <<>>))

Init ==
    /\ indexer = {}
    /\ result = Idle

\* The synchronisation component writes the indexer (cache.Store.Add).
Add ==
    \E o \in Objects :
        /\ result = Idle
        /\ Cardinality(indexer) < MaxObjects
        /\ \A q \in indexer : KeyOf(q) # KeyOf(o)
        /\ indexer' = indexer \cup {o}
        /\ result' = Idle

\* cache.Store.Update: the object under an existing key is replaced.
Update ==
    \E o \in Objects, q \in indexer :
        /\ result = Idle
        /\ KeyOf(q) = KeyOf(o)
        /\ q # o
        /\ indexer' = (indexer \ {q}) \cup {o}
        /\ result' = Idle

\* cache.Store.Delete.
Delete ==
    \E q \in indexer :
        /\ result = Idle
        /\ indexer' = indexer \ {q}
        /\ result' = Idle

PodList ==
    \E snapshot \in Snapshots(indexer), sel \in ListSelectors, storeErr \in BOOLEAN :
        /\ result = Idle
        /\ result' = Call("PodList", NoPod, "", "", sel, storeErr,
                          StoreToPodLister_List(snapshot, sel, storeErr))
        /\ UNCHANGED indexer

PodNamespaceList ==
    \E snapshot \in Snapshots(indexer), ns \in Namespaces,
       sel \in ListSelectors, storeErr \in BOOLEAN :
        /\ result = Idle
        /\ result' = Call("PodNamespaceList", NoPod, ns, "", sel, storeErr,
                          storePodsNamespacer_List(snapshot, ns, sel, storeErr))
        /\ UNCHANGED indexer

PodGet ==
    \E ns \in Namespaces, n \in Names, storeErr \in BOOLEAN :
        /\ result = Idle
        /\ result' = Call("PodGet", NoPod, ns, n, Everything, storeErr,
                          storePodsNamespacer_Get(indexer, ns, n, storeErr))
        /\ UNCHANGED indexer

PodServices ==
    \E snapshot \in Snapshots(indexer), pod \in SubjectPods, storeErr \in BOOLEAN :
        /\ result = Idle
        /\ result' = Call("GetPodServices", pod, "", "", Everything, storeErr,
                          GetPodServices(snapshot, pod, storeErr))
        /\ UNCHANGED indexer

PodControllers ==
    \E snapshot \in Snapshots(indexer), pod \in SubjectPods, storeErr \in BOOLEAN :
        /\ result = Idle
        /\ result' = Call("GetPodControllers", pod, "", "", Everything, storeErr,
                          GetPodControllers(snapshot, pod, storeErr))
        /\ UNCHANGED indexer

Return ==
    /\ result # Idle
    /\ result' = Idle
    /\ UNCHANGED indexer

Next ==
    \/ Add
    \/ Update
    \/ Delete
    \/ PodList
    \/ PodNamespaceList
    \/ PodGet
    \/ PodServices
    \/ PodControllers
    \/ Return

Spec == Init /\ [][Next]_vars

(***************************************************************************)
(* Vocabulary of the properties, stated on label maps directly and not     *)
(* through the operators above.                                            *)
(***************************************************************************)
\* Every key/value pair of `requirements` is a pair of `ls`.
Satisfies(requirements, ls) == requirements \subseteq ls.kv

InNamespace(ns) == { o \in indexer : o.namespace = ns }

\* The lister's documented precondition: the store holds only its type.
WellTyped(kind, ns) == \A o \in InNamespace(ns) : o.kind = kind
AllOfKind(kind) == \A o \in indexer : o.kind = kind

Count(seq, o) == Cardinality({ i \in DOMAIN seq : seq[i] = o })

\* The controllers of the pod's namespace that own the pod.
Owners(pod) ==
    { rc \in InNamespace(pod.namespace) :
        rc.selector.kv # {} /\ Satisfies(rc.selector.kv, pod.labels) }

\* The services of the pod's namespace that select the pod.
Selecting(pod) ==
    { svc \in InNamespace(pod.namespace) :
        ~svc.selector.isNil /\ Satisfies(svc.selector.kv, pod.labels) }

(***************************************************************************)
(* C1.  A pod with no labels (nil or empty map): GetPodControllers fails   *)
(* with the no-labels error, returns no controllers and makes no call on   *)
(* the indexer, whatever the store holds and even if the store would fail. *)
(***************************************************************************)
C1_NoLabelsFailsBeforeStore ==
    (result.op = "GetPodControllers" /\ MapLen(result.pod.labels) = 0)
        => /\ ~result.panic
           /\ result.err = Err("NoLabels", result.pod.name, "", NilMap)
           /\ result.ret = <<>>
           /\ result.calls = <<>>

C1_Witness ==
    /\ result.op = "GetPodControllers"
    /\ result.pod.labels = MakeMap({})
    /\ result.storeErr
    /\ \E rc \in InNamespace(result.pod.namespace) :
            rc.kind = "ReplicationController" /\ rc.selector.kv = {}
    /\ result.err.type = "NoLabels"

(***************************************************************************)
(* C2.  A pod with at least one label, over a store of controllers:        *)
(* GetPodControllers returns a nil error exactly when the returned list is *)
(* non-empty, and when the index answers and no controller of the pod's    *)
(* namespace matches, the error is the no-matching-owner error naming the  *)
(* pod, its namespace and its labels.                                      *)
(***************************************************************************)
C2_NilErrorIffNonEmpty ==
    ( /\ result.op = "GetPodControllers"
      /\ MapLen(result.pod.labels) > 0
      /\ WellTyped("ReplicationController", result.pod.namespace) )
        => /\ ~result.panic
           /\ (result.err = NoErr) <=> (result.ret # <<>>)
           /\ (~result.storeErr /\ Owners(result.pod) = {})
                => result.err = Err("NoMatch", result.pod.name,
                                    result.pod.namespace, result.pod.labels)

C2_Witness ==
    /\ result.op = "GetPodControllers"
    /\ MapLen(result.pod.labels) > 0
    /\ ~result.storeErr
    /\ \E rc \in InNamespace(result.pod.namespace) :
            rc.kind = "ReplicationController" /\ rc.selector.kv # {}
    /\ WellTyped("ReplicationController", result.pod.namespace)
    /\ result.ret = <<>>
    /\ result.err.type = "NoMatch"

(***************************************************************************)
(* C3.  Over a store of services, GetPodServices treats zero matches as    *)
(* success: it returns an error exactly when the namespace listing fails   *)
(* (and then no services), and with no selecting service it returns the    *)
(* empty list and a nil error.                                             *)
(***************************************************************************)
C3_ZeroMatchesIsSuccess ==
    ( /\ result.op = "GetPodServices"
      /\ WellTyped("Service", result.pod.namespace) )
        => /\ ~result.panic
           /\ (result.err # NoErr) <=> result.storeErr
           /\ result.storeErr => result.ret = <<>>
           /\ (~result.storeErr /\ Selecting(result.pod) = {})
                => (result.ret = <<>> /\ result.err = NoErr)

C3_Witness ==
    /\ result.op = "GetPodServices"
    /\ ~result.storeErr
    /\ \E svc \in InNamespace(result.pod.namespace) : svc.selector.kv # {}
    /\ WellTyped("Service", result.pod.namespace)
    /\ Selecting(result.pod) = {}
    /\ result.ret = <<>>
    /\ result.err = NoErr

(***************************************************************************)
(* C4.  A service whose selector is nil is never in the result of          *)
(* GetPodServices; with svcA selecting {app: x} and svcB with a nil        *)
(* selector in the namespace of a pod labelled {app: x}, the result is     *)
(* exactly [svcA].                                                         *)
(***************************************************************************)
C4_Scenario(svcA, svcB) ==
    /\ result.op = "GetPodServices"
    /\ ~result.storeErr
    /\ result.pod.labels = MakeMap({<<"app", "x">>})
    /\ InNamespace(result.pod.namespace) = {svcA, svcB}
    /\ svcA.kind = "Service" /\ svcA.selector = MakeMap({<<"app", "x">>})
    /\ svcB.kind = "Service" /\ svcB.selector = NilMap

C4_NilSelectorNeverSelected ==
    /\ result.op = "GetPodServices"
        => \A i \in DOMAIN result.ret : ~result.ret[i].selector.isNil
    /\ \A svcA, svcB \in indexer :
          C4_Scenario(svcA, svcB) => result.ret = <<svcA>>

C4_Witness ==
    \E svcA, svcB \in indexer :
        C4_Scenario(svcA, svcB) /\ result.ret = <<svcA>>

(***************************************************************************)
(* C5.  A replication controller whose selector has zero requirements      *)
(* (empty or nil) is never in the result of GetPodControllers; when such   *)
(* controllers are all the pod's namespace holds, the call fails with the  *)
(* no-matching-owner error.                                                *)
(***************************************************************************)
C5_OnlyEmptySelectors ==
    /\ result.op = "GetPodControllers"
    /\ MapLen(result.pod.labels) > 0
    /\ ~result.storeErr
    /\ InNamespace(result.pod.namespace) # {}
    /\ \A rc \in InNamespace(result.pod.namespace) :
          rc.kind = "ReplicationController" /\ rc.selector.kv = {}

C5_EmptySelectorNeverOwns ==
    /\ result.op = "GetPodControllers"
        => \A i \in DOMAIN result.ret : result.ret[i].selector.kv # {}
    /\ C5_OnlyEmptySelectors
        => (result.ret = <<>> /\ result.err.type = "NoMatch" /\ ~result.panic)

C5_Witness ==
    /\ C5_OnlyEmptySelectors
    /\ \E rc \in InNamespace(result.pod.namespace) : rc.selector = MakeMap({})
    /\ \E rc \in InNamespace(result.pod.namespace) : rc.selector = NilMap
    /\ result.err.type = "NoMatch"

(***************************************************************************)
(* C6.  A pod with at least one label, over a store of controllers whose   *)
(* index answers: GetPodControllers returns every controller of the pod's  *)
(* namespace whose selector is non-empty and satisfied by the pod's        *)
(* labels, each exactly once, however many there are.                      *)
(***************************************************************************)
C6_AllOwnersReturnedOnce ==
    ( /\ result.op = "GetPodControllers"
      /\ MapLen(result.pod.labels) > 0
      /\ ~result.storeErr
      /\ WellTyped("ReplicationController", result.pod.namespace) )
        => /\ \A rc \in Owners(result.pod) : Count(result.ret, rc) = 1
           /\ Len(result.ret) = Cardinality(Owners(result.pod))

C6_Witness ==
    /\ result.op = "GetPodControllers"
    /\ ~result.storeErr
    /\ result.pod.labels = MakeMap({<<"app", "x">>, <<"tier", "y">>})
    /\ Cardinality(Owners(result.pod)) = 2
    /\ \E rc \in Owners(result.pod) : rc.selector = MakeMap({<<"app", "x">>})
    /\ Len(result.ret) = 2
    /\ result.err = NoErr

(***************************************************************************)
(* C7.  Over a store of pods that answers: Pods(N).List(S) returns exactly *)
(* the objects of List(S) that are in namespace N, both return exactly the *)
(* stored objects whose labels satisfy S, and a repeated call on the       *)
(* unchanged store returns the same set of objects.                        *)
(***************************************************************************)
C7_NamespaceListIsRestriction ==
    /\ (result.op = "PodList" /\ ~result.storeErr /\ AllOfKind("Pod"))
        => /\ ~result.panic /\ result.err = NoErr
           /\ Range(result.ret) =
                { o \in indexer : Satisfies(result.selector.reqs, o.labels) }
           /\ Len(result.ret) = Cardinality(Range(result.ret))
           /\ \A again \in Snapshots(indexer) :
                Range(StoreToPodLister_List(again, result.selector, FALSE).ret)
                    = Range(result.ret)
    /\ (result.op = "PodNamespaceList" /\ ~result.storeErr /\ AllOfKind("Pod"))
        => /\ ~result.panic /\ result.err = NoErr
           /\ Range(result.ret) =
                { o \in InNamespace(result.namespace) :
                    Satisfies(result.selector.reqs, o.labels) }
           /\ Len(result.ret) = Cardinality(Range(result.ret))
           /\ \A again \in Snapshots(indexer) :
                /\ Range(result.ret) =
                     { o \in Range(StoreToPodLister_List(
                                     again, result.selector, FALSE).ret) :
                         o.namespace = result.namespace }
                /\ Range(storePodsNamespacer_List(
                            again, result.namespace, result.selector, FALSE).ret)
                     = Range(result.ret)

C7_Witness ==
    /\ result.op = "PodNamespaceList"
    /\ ~result.storeErr
    /\ AllOfKind("Pod")
    /\ result.selector.reqs = {<<"app", "x">>}
    /\ Len(result.ret) = 1
    /\ \E o \in indexer :
          o.namespace # result.namespace
            /\ Satisfies(result.selector.reqs, o.labels)

(***************************************************************************)
(* C8.  Get on a key under which the store holds a value that is not a     *)
(* pod, the store answering: the call returns a TypeMismatch error to the  *)
(* caller; it neither panics nor returns the value as a pod.  The code     *)
(* violates this: the unchecked type assertion at line 77 panics.         *)
(***************************************************************************)
C8_ForeignValueStored ==
    /\ result.op = "PodGet"
    /\ ~result.storeErr
    /\ \E o \in indexer :
          KeyOf(o) = Key(result.namespace, result.name) /\ o.kind # "Pod"

C8_TypeMismatchReturned ==
    C8_ForeignValueStored
        => (~result.panic /\ result.err.type = "TypeMismatch" /\ result.ret = <<>>)

(***************************************************************************)
(* C9.  Every object returned by GetPodServices and by GetPodControllers   *)
(* is in the pod's namespace, also when an object of another namespace     *)
(* has a selector that matches the pod's labels.                           *)
(***************************************************************************)
C9_ResultInPodNamespace ==
    result.op \in {"GetPodServices", "GetPodControllers"}
        => \A i \in DOMAIN result.ret :
              result.ret[i].namespace = result.pod.namespace

C9_Witness ==
    /\ result.op = "GetPodControllers"
    /\ Len(result.ret) = 1
    /\ \E rc \in indexer :
          /\ rc.namespace # result.pod.namespace
          /\ rc.kind = "ReplicationController"
          /\ rc.selector.kv # {}
          /\ Satisfies(rc.selector.kv, result.pod.labels)

(***************************************************************************)
(* C10.  In GetPodServices only a nil selector is skipped: over a store of *)
(* services that answers, a service whose selector is present with zero    *)
(* requirements is returned for every pod of its namespace, a pod with no  *)
(* labels included.                                                        *)
(***************************************************************************)
C10_EmptySelectorSelectsAll ==
    ( /\ result.op = "GetPodServices"
      /\ ~result.storeErr
      /\ WellTyped("Service", result.pod.namespace) )
        => \A svc \in InNamespace(result.pod.namespace) :
              svc.selector = MakeMap({}) => Count(result.ret, svc) = 1

C10_Witness ==
    /\ result.op = "GetPodServices"
    /\ ~result.storeErr
    /\ result.pod.labels = NilMap
    /\ WellTyped("Service", result.pod.namespace)
    /\ \E svc \in InNamespace(result.pod.namespace) : svc.selector = MakeMap({})
    /\ \E svc \in InNamespace(result.pod.namespace) : svc.selector = NilMap
    /\ Len(result.ret) = 1

====
